---- MODULE Spec2Model ----
(***************************************************************************)
(* Solar panel power simulator: SimulationService.run_simulation           *)
(* (src/app/services/simulator.py), the SolarPanelSimulator engine and the *)
(* orbit providers (src/app/services/orbit_propagator.py) and the request  *)
(* validation (src/app/schemas.py).                                         *)
(*                                                                         *)
(* Number representation.  Python floats are rendered in fixed point:      *)
(*   lengths in whole km, cosines and panel efficiency in hundredths,      *)
(*   power in 1e-4 W, percentages in hundredths of a percent, periods in   *)
(*   hundredths of a minute.  A float NaN is the value NaN.                *)
(* A request's duration_hours is carried as the exact length              *)
(* duration_hours*3600 in seconds and nanoseconds, [s, ns]; a datetime or  *)
(* timedelta is [s, us] as in CPython (seconds and microseconds), counted  *)
(* from the instant the valid start_time denotes.                          *)
(* Optional[T] is << >> for None and <<x>> for a value x.                  *)
(***************************************************************************)
EXTENDS Integers, Sequences, FiniteSets, TLC

VARIABLES
    request,        \* Optional: the SimulationRequest handed to the service
    pc,             \* position inside run_simulation
    propagator,     \* Optional: the OrbitPropagator built at lines 24-35
    simulator,      \* Optional: the SolarPanelSimulator built at lines 37-41
    tle_ctor_args,  \* Optional: arguments TLEOrbitPropagator.__init__ received
    current_dt,     \* engine loop: current_dt
    end_dt,         \* engine loop: end_dt
    step_count,     \* engine loop: step_count
    results,        \* engine loop: results (rows of the later DataFrame)
    statistics,     \* Optional: local `statistics` of run_simulation
    data_points,    \* Optional: local `data_points` of run_simulation
    plot_url,       \* Optional: local `plot_url`
    csv_url,        \* Optional: local `csv_url`
    files,          \* files present in settings.OUTPUT_DIR
    db,             \* rows committed to the simulations table
    response,       \* Optional: the SimulationResponse returned
    raised          \* the exception run_simulation caught, "none" if none

vars == <<request, pc, propagator, simulator, tle_ctor_args, current_dt,
          end_dt, step_count, results, statistics, data_points, plot_url,
          csv_url, files, db, response, raised>>

-----------------------------------------------------------------------------
(* Optional values and NaN *)

None == << >>

Some(x) == <<x>>

NaN == 0 - 1073741824

IsNaN(x) == x = NaN

\* IEEE comparison: any comparison with NaN is false
FloatGt(a, b) == ~IsNaN(a) /\ ~IsNaN(b) /\ a > b

FloatLt(a, b) == ~IsNaN(a) /\ ~IsNaN(b) /\ a < b

-----------------------------------------------------------------------------
(* Program constants *)

EARTH_RADIUS_KM == 6371

SOLAR_CONSTANT == 1361

\* EARTH_MU = 398600.4418 km^3/s^2, here in (100 km)^3/s^2 times 1000
EARTH_MU_SCALED == 399

MinAltitudeKm == 200

MaxAltitudeKm == 2000

MaxInclinationDeg == 180

MinPanelArea == 1

MaxPanelArea == 100

\* panel_efficiency bounds 0.1 and 0.5, in hundredths
MinEfficiency == 10

MaxEfficiency == 50

\* duration_hours bounds 0.1 h and 24 h, in seconds
MinDurationSec == 360

MaxDurationSec == 86400

MinTimeStep == 1

MaxTimeStep == 300

\* max_points passed by run_simulation to prepare_data_points
MAX_POINTS == 500

MicrosPerSecond == 1000000

NanosPerMicro == 1000

-----------------------------------------------------------------------------
(* Arithmetic helpers: numpy on the fixed-point grid *)

RECURSIVE ISqrtIn(_, _, _)
ISqrtIn(n, lo, hi) ==
    IF lo >= hi THEN lo
    ELSE LET mid == (lo + hi + 1) \div 2
         IN IF mid * mid <= n THEN ISqrtIn(n, mid, hi)
                              ELSE ISqrtIn(n, lo, mid - 1)

\* floor of the square root (np.sqrt on exact squares of the grid)
ISqrt(n) == ISqrtIn(n, 0, 46340)

Dot(a, b) == a[1] * b[1] + a[2] * b[2] + a[3] * b[3]

\* np.linalg.norm
Norm(v) == ISqrt(Dot(v, v))

\* float division of a km quantity by a distance, result in hundredths;
\* 0/0 is NaN (numpy warns, it does not raise)
DivHundredths(x, d) == IF d = 0 THEN NaN ELSE (x * 100) \div d

\* dot product of a direction in hundredths (or NaN) with a unit sun vector
DotDir(dir, sun) ==
    IF \E i \in 1..3 : IsNaN(dir[i]) THEN NaN
    ELSE dir[1] * sun[1] + dir[2] * sun[2] + dir[3] * sun[3]

\* np.clip(x, -1, 1) on hundredths; NaN stays NaN
Clip(x) == IF IsNaN(x) THEN NaN
           ELSE IF x < 0 - 100 THEN 0 - 100
           ELSE IF x > 100 THEN 100 ELSE x

\* np.degrees(np.arccos(c)) for the cosines the position grid produces
ArccosDeg(c) ==
    IF IsNaN(c) THEN NaN
    ELSE IF c >= 100 THEN 0
    ELSE IF c >= 80 THEN 37
    ELSE IF c >= 60 THEN 53
    ELSE IF c > 0 THEN 66
    ELSE IF c = 0 THEN 90
    ELSE IF c > 0 - 60 THEN 114
    ELSE IF c > 0 - 80 THEN 127
    ELSE IF c > 0 - 100 THEN 143
    ELSE 180

-----------------------------------------------------------------------------
(* datetime / timedelta *)

\* strings datetime.fromisoformat accepts; anything else raises ValueError
IsoStrings == {"2024-01-15T00:00:00"}

IsIsoformat(text) == text \in IsoStrings

\* datetime.fromisoformat of an accepted string: the origin of the time axis
FromIsoformat(text) == [s |-> 0, us |-> 0]

\* round-half-even of ns/1000, as timedelta does for a float argument
RoundToMicros(ns) ==
    LET q == ns \div NanosPerMicro
        r == ns % NanosPerMicro
    IN IF r * 2 > NanosPerMicro \/ (r * 2 = NanosPerMicro /\ q % 2 = 1)
       THEN q + 1 ELSE q

\* timedelta(hours=duration_hours): microsecond resolution, normalised
TimedeltaHours(d) ==
    LET us == RoundToMicros(d.ns)
    IN IF us >= MicrosPerSecond
       THEN [s |-> d.s + 1, us |-> us - MicrosPerSecond]
       ELSE [s |-> d.s, us |-> us]

\* timedelta(seconds=time_step_seconds) for an int
TimedeltaSeconds(n) == [s |-> n, us |-> 0]

\* datetime + timedelta
DtAdd(a, b) ==
    LET us == a.us + b.us
    IN IF us >= MicrosPerSecond
       THEN [s |-> a.s + b.s + 1, us |-> us - MicrosPerSecond]
       ELSE [s |-> a.s + b.s, us |-> us]

\* variant: strict comparison, the end of the window is left out
DtLt(a, b) == a.s < b.s \/ (a.s = b.s /\ a.us < b.us)

\* datetime <= datetime
DtLe(a, b) == a.s < b.s \/ (a.s = b.s /\ a.us <= b.us)

\* (a - b).total_seconds() for datetimes on whole seconds
ElapsedSeconds(a, b) == a.s - b.s

\* datetime.isoformat(): a string that names the instant
Isoformat(dt) == <<"iso", dt.s, dt.us>>

-----------------------------------------------------------------------------
(* Requests and their validation (schemas.py) *)

TLE_LINE1 == "1 25544U 98067A   24015.50000000  .00012345  00000-0  12345-3 0  9992"

TLE_LINE2 == "2 25544  51.6416 247.4627 0006703 130.5360 325.0288 15.72125391123456"

\* the example request of schemas.py, at an altitude whose orbital radius
\* (7000 km) has exact points on the position grid
DefaultRequest ==
    [propagation_method |-> "circular",
     altitude_km        |-> Some(629),
     inclination_deg    |-> Some(0),
     tle_line1          |-> None,
     tle_line2          |-> None,
     panel_area_m2      |-> 15,
     panel_efficiency   |-> 29,
     start_time         |-> "2024-01-15T00:00:00",
     duration           |-> [s |-> MinDurationSec, ns |-> 0],
     time_step_seconds  |-> MaxTimeStep,
     generate_plot      |-> TRUE,
     export_csv         |-> TRUE]

\* Python truthiness of an Optional[str]: None and "" are falsy
Falsy(opt) == opt = None \/ opt[1] = ""

\* Field(ge=lo, le=hi) on an Optional number: None passes
OptInRange(opt, lo, hi) == opt = None \/ (opt[1] >= lo /\ opt[1] <= hi)

\* duration_hours: Field(ge=0.1, le=24) on the exact length
DurationInRange(d) ==
    /\ d.s >= MinDurationSec
    /\ d.s < MaxDurationSec \/ (d.s = MaxDurationSec /\ d.ns = 0)

\* the Field constraints of the three parameter base classes
FieldsValid(r) ==
    /\ r.propagation_method \in {"circular", "tle"}
    /\ OptInRange(r.altitude_km, MinAltitudeKm, MaxAltitudeKm)
    /\ OptInRange(r.inclination_deg, 0, MaxInclinationDeg)
    /\ r.panel_area_m2 >= MinPanelArea /\ r.panel_area_m2 <= MaxPanelArea
    /\ r.panel_efficiency >= MinEfficiency
    /\ r.panel_efficiency <= MaxEfficiency
    /\ DurationInRange(r.duration)
    /\ r.time_step_seconds >= MinTimeStep
    /\ r.time_step_seconds <= MaxTimeStep

\* variant: raises only when both lines are missing
validate_tle_required_both(r) ==
    ~(r.propagation_method = "tle"
      /\ (Falsy(r.tle_line1) /\ Falsy(r.tle_line2)))

\* SimulationRequest.validate_tle_required: TRUE when it does not raise
validate_tle_required(r) ==
    ~(r.propagation_method = "tle"
      /\ (Falsy(r.tle_line1) \/ Falsy(r.tle_line2)))

\* pydantic accepts the request body
Validates(r) == FieldsValid(r) /\ validate_tle_required(r)

-----------------------------------------------------------------------------
(* Orbit providers (orbit_propagator.py) *)

\* 2*np.pi in thousandths
TwoPiMilli == 6283

\* minutes per day, 24 * 60
MinutesPerDay == 1440

\* period of a circular orbit in hundredths of a minute, by Kepler's third
\* law T = 2*pi*sqrt(r^3/mu) with r in units of 100 km
KeplerPeriodMinutes(orbital_radius) ==
    LET r100 == orbital_radius \div 100
        q == (r100 * r100 * r100 * 1000) \div EARTH_MU_SCALED
        period_seconds == (TwoPiMilli * ISqrt(q)) \div 1000
    IN (period_seconds * 100) \div 60

\* CircularOrbitPropagator.__init__ raises: fromisoformat on a malformed
\* start_time (ValueError), EARTH_RADIUS_KM + None (TypeError)
CircularCtorRaises(r) == ~IsIsoformat(r.start_time) \/ r.altitude_km = None

\* CircularOrbitPropagator.__init__
CircularOrbitPropagator(altitude_km, inclination_deg, start_time) ==
    [kind                   |-> "circular",
     altitude_km            |-> altitude_km[1],
     inclination_deg        |-> inclination_deg,
     start_dt               |-> FromIsoformat(start_time),
     orbital_radius         |-> EARTH_RADIUS_KM + altitude_km[1],
     orbital_period_minutes |->
         KeplerPeriodMinutes(EARTH_RADIUS_KM + altitude_km[1])]

\* (cos, sin) of the inclinations the requests use
CosSinDeg(deg) == IF deg = 0 THEN <<1, 0>>
                  ELSE IF deg = 90 THEN <<0, 1>>
                  ELSE <<0 - 1, 0>>

\* (cos theta, sin theta) in fifths: the orbit angles with exact grid points
OrbitPhases == {<<5, 0>>, <<3, 4>>, <<0, 5>>, <<0 - 4, 3>>}

\* the orbit angles theta = angular_velocity * elapsed can take at time_dt:
\* theta = 0 at the start, any tabulated angle later
PhasesAt(prop, time_dt) ==
    IF ElapsedSeconds(time_dt, prop.start_dt) = 0 THEN {<<5, 0>>}
    ELSE OrbitPhases

\* CircularOrbitPropagator.get_position raises: np.radians(None)
CircularPositionRaises(prop) == prop.inclination_deg = None

\* CircularOrbitPropagator.get_position, phase = (cos theta, sin theta)
CircularGetPosition(prop, phase) ==
    LET x_orbit == (prop.orbital_radius * phase[1]) \div 5
        y_orbit == (prop.orbital_radius * phase[2]) \div 5
        z_orbit == 0
        inc     == CosSinDeg(prop.inclination_deg[1])
    IN <<x_orbit,
         y_orbit * inc[1] - z_orbit * inc[2],
         y_orbit * inc[2] + z_orbit * inc[1]>>

\* float(tle_line2[52:63]) succeeds: the mean-motion field is a number
MeanMotionParsable(line2) == line2 = TLE_LINE2

\* the mean-motion field of line 2 in hundredths of a revolution per day
MeanMotion(line2) == 1572

\* TLEOrbitPropagator.__init__ raises: EarthSatellite on a missing line
\* (TypeError), float(tle_line2[52:63]) on a line 2 without a mean motion
\* (ValueError)
TleCtorRaises(line1, line2) ==
    line1 = None \/ line2 = None \/ ~MeanMotionParsable(line2[1])

\* TLEOrbitPropagator.__init__
TLEOrbitPropagator(line1, line2) ==
    [kind                   |-> "tle",
     tle_line1              |-> line1,
     tle_line2              |-> line2,
     orbital_period_minutes |->
         (MinutesPerDay * 10000) \div MeanMotion(line2[1])]

\* positions (km) the external SGP4 propagation may return
TlePositions == {<<7000, 0, 0>>, <<0 - 1960, 6720, 0>>,
                 <<0 - 5600, 4200, 0>>, <<0, 0, 0>>}

\* get_orbital_period of either provider
get_orbital_period(prop) == prop.orbital_period_minutes

-----------------------------------------------------------------------------
(* SolarPanelSimulator: sun direction, shadow, power *)

\* SolarPanelSimulator.__init__ (the ephemeris load is an input of the step)
SolarPanelSimulator(prop, panel_area_m2, panel_efficiency) ==
    [panel_area |-> panel_area_m2, efficiency |-> panel_efficiency]

\* Earth-to-Sun vectors the ephemeris may return, in units of 1e5 km
SunPositions == {<<1500, 0, 0>>, <<0, 1500, 0>>}

\* get_sun_direction: sun_position / np.linalg.norm(sun_position)
get_sun_direction(sun_position) ==
    LET n == Norm(sun_position)
    IN <<sun_position[1] \div n, sun_position[2] \div n,
         sun_position[3] \div n>>

\* SolarPanelSimulator.is_in_shadow
is_in_shadow(satellite_pos, sun_direction) ==
    LET sat_distance  == Norm(satellite_pos)
        sat_direction == <<DivHundredths(satellite_pos[1], sat_distance),
                           DivHundredths(satellite_pos[2], sat_distance),
                           DivHundredths(satellite_pos[3], sat_distance)>>
        dot           == DotDir(sat_direction, sun_direction)
    IN IF FloatGt(dot, 0) THEN FALSE
       ELSE LET projection == Dot(satellite_pos, sun_direction)
                perpendicular_distance ==
                    ISqrt(sat_distance * sat_distance
                          - projection * projection)
            IN perpendicular_distance < EARTH_RADIUS_KM

\* panel_normal . sun_direction, in hundredths
CosAngle(satellite_pos, sun_direction) ==
    LET n == Norm(satellite_pos)
    IN DotDir(<<DivHundredths(satellite_pos[1], n),
                DivHundredths(satellite_pos[2], n),
                DivHundredths(satellite_pos[3], n)>>, sun_direction)

\* variant: no test of the sign of cos_angle
calculate_power_unsigned(sim, satellite_pos, sun_direction, in_shadow) ==
    IF in_shadow THEN 0
    ELSE SOLAR_CONSTANT * sim.panel_area * sim.efficiency
             * CosAngle(satellite_pos, sun_direction)

\* SolarPanelSimulator.calculate_power, in 1e-4 W
calculate_power(sim, satellite_pos, sun_direction, in_shadow) ==
    IF in_shadow THEN 0
    ELSE LET cos_angle == CosAngle(satellite_pos, sun_direction)
         IN IF FloatGt(cos_angle, 0)
            THEN SOLAR_CONSTANT * sim.panel_area * sim.efficiency * cos_angle
            ELSE 0

\* the row one loop iteration appends (lines 194-214)
EngineRow(sim, time_dt, sat_pos, sun_dir) ==
    LET in_shadow == is_in_shadow(sat_pos, sun_dir)
    IN [time          |-> time_dt,
        power_W       |-> calculate_power(sim, sat_pos, sun_dir, in_shadow),
        in_shadow     |-> in_shadow,
        sun_angle_deg |-> ArccosDeg(Clip(CosAngle(sat_pos, sun_dir))),
        altitude_km   |-> Norm(sat_pos) - EARTH_RADIUS_KM,
        position_x    |-> sat_pos[1],
        position_y    |-> sat_pos[2],
        position_z    |-> sat_pos[3]]

-----------------------------------------------------------------------------
(* SimulationService helpers (simulator.py) *)

RECURSIVE SumPower(_)
SumPower(df) == IF df = <<>> THEN 0
                ELSE Head(df).power_W + SumPower(Tail(df))

MaxOf(S) == CHOOSE x \in S : \A y \in S : y <= x

MinOf(S) == CHOOSE x \in S : \A y \in S : x <= y

\* variant: the percentage is taken from the eclipse time, not the count
calculate_statistics_by_time(df, prop, time_step_seconds) ==
    LET shadow_count == Cardinality({i \in 1..Len(df) : df[i].in_shadow})
    IN [max_power_W            |-> MaxOf({df[i].power_W : i \in 1..Len(df)}),
        avg_power_W            |-> SumPower(df) \div Len(df),
        min_altitude_km        |-> MinOf({df[i].altitude_km : i \in 1..Len(df)}),
        max_altitude_km        |-> MaxOf({df[i].altitude_km : i \in 1..Len(df)}),
        eclipse_time_seconds   |-> shadow_count * time_step_seconds,
        eclipse_percentage     |->
            (shadow_count * time_step_seconds * 100 * 100) \div Len(df),
        orbital_period_minutes |-> get_orbital_period(prop),
        total_data_points      |-> Len(df)]

\* SimulationService.calculate_statistics on a non-empty frame
calculate_statistics(df, prop, time_step_seconds) ==
    LET shadow_count == Cardinality({i \in 1..Len(df) : df[i].in_shadow})
    IN [max_power_W            |-> MaxOf({df[i].power_W : i \in 1..Len(df)}),
        avg_power_W            |-> SumPower(df) \div Len(df),
        min_altitude_km        |-> MinOf({df[i].altitude_km : i \in 1..Len(df)}),
        max_altitude_km        |-> MaxOf({df[i].altitude_km : i \in 1..Len(df)}),
        eclipse_time_seconds   |-> shadow_count * time_step_seconds,
        eclipse_percentage     |-> (shadow_count * 100 * 100) \div Len(df),
        orbital_period_minutes |-> get_orbital_period(prop),
        total_data_points      |-> Len(df)]

\* len(range(start, stop, step)) for a positive step
RangeLen(start, stop, step) ==
    IF stop > start THEN (stop - start + step - 1) \div step ELSE 0

\* df.iloc[::step]: the rows at the 0-based positions range(0, len(df), step)
IlocStep(df, step) ==
    [k \in 1..RangeLen(0, Len(df), step) |-> df[(k - 1) * step + 1]]

\* DataPoint(...) built from one row (lines 120-126)
DataPoint(row) ==
    [time          |-> Isoformat(row.time),
     power_W       |-> row.power_W,
     in_shadow     |-> row.in_shadow,
     sun_angle_deg |-> row.sun_angle_deg,
     altitude_km   |-> row.altitude_km]

\* variant: the stride is rounded up instead of down
prepare_data_points_ceil(df, max_points) ==
    LET kept == IF Len(df) > max_points
                THEN IlocStep(df, Len(df) \div max_points + 1)
                ELSE df
    IN [k \in 1..Len(kept) |-> DataPoint(kept[k])]

\* SimulationService.prepare_data_points
prepare_data_points(df, max_points) ==
    LET kept == IF Len(df) > max_points
                THEN IlocStep(df, Len(df) \div max_points)
                ELSE df
    IN [k \in 1..Len(kept) |-> DataPoint(kept[k])]

\* the methods class SimulationService defines
ServiceMethods == {"__init__", "run_simulation", "calculate_statistics",
                   "prepare_data_points", "generate_plot", "export_csv",
                   "_save_to_database"}

\* attribute lookup self.<name> finds a method
HasMethod(name) == name \in ServiceMethods

\* the single simulation id of the run, str(uuid.uuid4())
SimId == "sim-1"

PlotFile == <<SimId, "_plot.png">>

CsvFile == <<SimId, "_data.csv">>

\* _save_to_database: the row is committed, or the commit fails and is
\* rolled back (the except clause swallows the failure)
SaveToDatabase(rows, stats, purl, curl, status, error_message, commit_ok) ==
    IF commit_ok
    THEN rows \cup {[simulation_id |-> SimId,
                     statistics    |-> stats,
                     plot_url      |-> purl,
                     csv_url       |-> curl,
                     status        |-> status,
                     error_message |-> error_message]}
    ELSE rows

\* variant: the rows gathered before the failure are handed back
ErrorResponsePartial(e) ==
    [simulation_id |-> SimId,
     status        |-> "error",
     message       |-> <<"Simulation failed: ", e>>,
     statistics    |-> None,
     data_points   |-> IF results = <<>> THEN None
                       ELSE Some(prepare_data_points(results, MAX_POINTS)),
     plot_url      |-> None,
     csv_url       |-> None]

\* the SimulationResponse of the except branch (lines 93-98)
ErrorResponse(e) ==
    [simulation_id |-> SimId,
     status        |-> "error",
     message       |-> <<"Simulation failed: ", e>>,
     statistics    |-> None,
     data_points   |-> None,
     plot_url      |-> None,
     csv_url       |-> None]

\* the SimulationResponse of the success path (lines 71-80)
SuccessResponse(stats, points, purl, curl) ==
    [simulation_id |-> SimId,
     status        |-> "success",
     message       |-> <<"Simulation completed successfully">>,
     statistics    |-> stats,
     data_points   |-> points,
     plot_url      |-> purl,
     csv_url       |-> curl]

\* variant: the except clause of _save_to_database rolls back and re-raises
SaveRaisesUncaught(commit_ok) == ~commit_ok

\* _save_to_database lets an exception out: a failure of add/commit is
\* caught at line 221, rolled back and not raised again
SaveRaises(commit_ok) == FALSE

\* except Exception as e (lines 82-98): record the error, return the
\* error response; an exception leaving _save_to_database would leave
\* run_simulation too, with no response
Except(e, commit_ok) ==
    /\ raised' = e
    /\ db' = SaveToDatabase(db, None, None, None, "error", Some(e), commit_ok)
    /\ IF SaveRaises(commit_ok)
       THEN /\ response' = None
            /\ pc' = "crashed"
       ELSE /\ response' = Some(ErrorResponse(e))
            /\ pc' = "done"

-----------------------------------------------------------------------------
(* Bounds of the model and the request bodies it submits *)

\* longest window of the service-level runs, in seconds
MaxWindowSec == 720

\* longest frame handed to prepare_data_points on its own
MaxFrameLen == 1100

ShortStep == MaxTimeStep - 60

\* duration_hours*3600: below the minimum, the minimum, just below and
\* just above ten minutes, and the longest window
Durations ==
    {[s |-> MinDurationSec - 1, ns |-> 999999600],
     [s |-> MinDurationSec, ns |-> 0],
     [s |-> 599, ns |-> 999999600],
     [s |-> 600, ns |-> 400],
     [s |-> MaxWindowSec, ns |-> 0]}

Steps == {MinTimeStep - 1, ShortStep, MaxTimeStep, MaxTimeStep + 1}

CircularRequests ==
    {[DefaultRequest EXCEPT !.inclination_deg = i, !.duration = d,
                            !.time_step_seconds = st,
                            !.generate_plot = gp, !.export_csv = ec] :
        i \in {Some(0), Some(90)}, d \in Durations, st \in Steps,
        gp \in BOOLEAN, ec \in BOOLEAN}

TleRequests ==
    {[DefaultRequest EXCEPT !.propagation_method = "tle",
                            !.tle_line1 = l1, !.tle_line2 = l2,
                            !.duration = d,
                            !.generate_plot = gp, !.export_csv = ec] :
        l1 \in {None, Some(""), Some(TLE_LINE1)},
        l2 \in {None, Some(""), Some(TLE_LINE2), Some("garbage")},
        d \in {[s |-> MinDurationSec, ns |-> 0],
               [s |-> MaxWindowSec, ns |-> 0]},
        gp \in BOOLEAN, ec \in BOOLEAN}

\* single-field departures from the default request
OtherRequests ==
    {[DefaultRequest EXCEPT !.inclination_deg = None],
     [DefaultRequest EXCEPT !.altitude_km = None],
     [DefaultRequest EXCEPT !.altitude_km = Some(MinAltitudeKm - 1)],
     [DefaultRequest EXCEPT !.inclination_deg = Some(MaxInclinationDeg + 1)],
     [DefaultRequest EXCEPT !.start_time = "yesterday"],
     [DefaultRequest EXCEPT !.propagation_method = "tle",
                            !.tle_line1 = Some(TLE_LINE1),
                            !.tle_line2 = Some(TLE_LINE2),
                            !.start_time = "yesterday"],
     [DefaultRequest EXCEPT !.propagation_method = "kepler"],
     [DefaultRequest EXCEPT !.panel_area_m2 = MaxPanelArea + 1],
     [DefaultRequest EXCEPT !.panel_efficiency = MinEfficiency - 1]}

Requests == CircularRequests \cup TleRequests \cup OtherRequests

-----------------------------------------------------------------------------
(* The service: POST /simulations and SimulationService.run_simulation *)

Init ==
    /\ request = None
    /\ pc = "idle"
    /\ propagator = None
    /\ simulator = None
    /\ tle_ctor_args = None
    /\ current_dt = [s |-> 0, us |-> 0]
    /\ end_dt = [s |-> 0, us |-> 0]
    /\ step_count = 0
    /\ results = <<>>
    /\ statistics = None
    /\ data_points = None
    /\ plot_url = None
    /\ csv_url = None
    /\ files = {}
    /\ db = {}
    /\ response = None
    /\ raised = "none"

\* create_simulation: pydantic validates the body; run_simulation is
\* entered only with a validated request
Submit(r) ==
    /\ pc = "idle"
    /\ request' = Some(r)
    /\ pc' = IF Validates(r) THEN "construct" ELSE "rejected"
    /\ UNCHANGED <<propagator, simulator, tle_ctor_args, current_dt, end_dt,
                   step_count, results, statistics, data_points, plot_url,
                   csv_url, files, db, response, raised>>

\* run_simulation lines 24-41: build the orbit provider and the simulator;
\* eph_ok: load('de421.bsp') succeeds
Construct(eph_ok, commit_ok) ==
    /\ pc = "construct"
    /\ LET r == request[1]
           is_circular == r.propagation_method = "circular"
           ctor_raises ==
               IF is_circular THEN CircularCtorRaises(r)
               ELSE TleCtorRaises(r.tle_line1, r.tle_line2)
       IN /\ tle_ctor_args' = IF is_circular THEN tle_ctor_args
                              ELSE Some(<<r.tle_line1, r.tle_line2>>)
          /\ IF ctor_raises
             THEN /\ Except("orbit_provider_construction", commit_ok)
                  /\ UNCHANGED <<propagator, simulator>>
             ELSE /\ propagator' =
                        IF is_circular
                        THEN Some(CircularOrbitPropagator(
                                 r.altitude_km, r.inclination_deg,
                                 r.start_time))
                        ELSE Some(TLEOrbitPropagator(r.tle_line1,
                                                     r.tle_line2))
                  /\ IF eph_ok
                     THEN /\ simulator' =
                                Some(SolarPanelSimulator(propagator'[1],
                                     r.panel_area_m2, r.panel_efficiency))
                          /\ pc' = "start"
                          /\ UNCHANGED <<db, response, raised>>
                     ELSE /\ Except("ephemeris_load", commit_ok)
                          /\ UNCHANGED simulator
    /\ UNCHANGED <<request, current_dt, end_dt, step_count, results,
                   statistics, data_points, plot_url, csv_url, files>>

\* SolarPanelSimulator.run_simulation lines 180-186
StartLoop(commit_ok) ==
    /\ pc = "start"
    /\ LET r == request[1]
       IN IF IsIsoformat(r.start_time)
          THEN /\ current_dt' = FromIsoformat(r.start_time)
               /\ end_dt' = DtAdd(FromIsoformat(r.start_time),
                                  TimedeltaHours(r.duration))
               /\ results' = <<>>
               /\ step_count' = 0
               /\ pc' = "loop"
               /\ UNCHANGED <<db, response, raised>>
          ELSE /\ Except("fromisoformat", commit_ok)
               /\ UNCHANGED <<current_dt, end_dt, results, step_count>>
    /\ UNCHANGED <<request, propagator, simulator, tle_ctor_args, statistics,
                   data_points, plot_url, csv_url, files>>

\* what propagator.get_position(current_dt) can do: None is an exception
PositionOutcomes(prop, time_dt) ==
    IF prop.kind = "circular"
    THEN IF CircularPositionRaises(prop) THEN {None}
         ELSE {Some(CircularGetPosition(prop, ph)) :
                   ph \in PhasesAt(prop, time_dt)}
    ELSE {None} \cup {Some(p) : p \in TlePositions}

\* what get_sun_direction(current_dt) can do: None is an exception
SunOutcomes == {None} \cup {Some(get_sun_direction(sp)) : sp \in SunPositions}

\* variant: the step is added twice in one iteration
AdvanceTwice(ts) ==
    /\ current_dt' = DtAdd(DtAdd(current_dt, TimedeltaSeconds(ts)),
                           TimedeltaSeconds(ts))
    /\ step_count' = step_count + 1

\* variant: the iteration is left before lines 216-217
AdvanceStuck(ts) ==
    /\ current_dt' = current_dt
    /\ step_count' = step_count

\* current_dt += step; step_count += 1 (lines 216-217)
Advance(ts) ==
    /\ current_dt' = DtAdd(current_dt, TimedeltaSeconds(ts))
    /\ step_count' = step_count + 1

\* one iteration of the while loop (lines 187-217)
EngineStep(sat_pos, sun_dir, commit_ok) ==
    /\ pc = "loop"
    /\ DtLe(current_dt, end_dt)
    /\ IF sat_pos = None
       THEN /\ Except("get_position", commit_ok)
            /\ UNCHANGED <<results, current_dt, step_count>>
       ELSE IF sun_dir = None
       THEN /\ Except("get_sun_direction", commit_ok)
            /\ UNCHANGED <<results, current_dt, step_count>>
       ELSE /\ results' = Append(results,
                 EngineRow(simulator[1], current_dt, sat_pos[1], sun_dir[1]))
            /\ Advance(request[1].time_step_seconds)
            /\ UNCHANGED <<pc, db, response, raised>>
    /\ UNCHANGED <<request, propagator, simulator, tle_ctor_args, end_dt,
                   statistics, data_points, plot_url, csv_url, files>>

\* the loop ends, the frame is returned (lines 219-221) and
\* calculate_statistics runs (lines 49-52)
CalculateStatistics ==
    /\ pc = "loop"
    /\ ~DtLe(current_dt, end_dt)
    /\ statistics' = Some(calculate_statistics(results, propagator[1],
                                request[1].time_step_seconds))
    /\ pc' = "plot"
    /\ UNCHANGED <<request, propagator, simulator, tle_ctor_args, current_dt,
                   end_dt, step_count, results, data_points, plot_url,
                   csv_url, files, db, response, raised>>

\* lines 54-55: generate_plot writes <sim_id>_plot.png, or savefig raises
GeneratePlot(io_ok, commit_ok) ==
    /\ pc = "plot"
    /\ IF ~request[1].generate_plot
       THEN /\ pc' = "csv"
            /\ UNCHANGED <<files, plot_url, db, response, raised>>
       ELSE IF io_ok
       THEN /\ files' = files \cup {PlotFile}
            /\ plot_url' = Some(<<"/outputs/", PlotFile>>)
            /\ pc' = "csv"
            /\ UNCHANGED <<db, response, raised>>
       ELSE /\ Except("savefig", commit_ok)
            /\ UNCHANGED <<files, plot_url>>
    /\ UNCHANGED <<request, propagator, simulator, tle_ctor_args, current_dt,
                   end_dt, step_count, results, statistics, data_points,
                   csv_url>>

\* lines 57-58: export_csv writes <sim_id>_data.csv, or to_csv raises
ExportCsv(io_ok, commit_ok) ==
    /\ pc = "csv"
    /\ IF ~request[1].export_csv
       THEN /\ pc' = "prepare"
            /\ UNCHANGED <<files, csv_url, db, response, raised>>
       ELSE IF io_ok
       THEN /\ files' = files \cup {CsvFile}
            /\ csv_url' = Some(<<"/outputs/", CsvFile>>)
            /\ pc' = "prepare"
            /\ UNCHANGED <<db, response, raised>>
       ELSE /\ Except("to_csv", commit_ok)
            /\ UNCHANGED <<files, csv_url>>
    /\ UNCHANGED <<request, propagator, simulator, tle_ctor_args, current_dt,
                   end_dt, step_count, results, statistics, data_points,
                   plot_url>>

\* line 60
PrepareDataPoints ==
    /\ pc = "prepare"
    /\ data_points' = Some(prepare_data_points(results, MAX_POINTS))
    /\ pc' = "save"
    /\ UNCHANGED <<request, propagator, simulator, tle_ctor_args, current_dt,
                   end_dt, step_count, results, statistics, plot_url,
                   csv_url, files, db, response, raised>>

\* lines 62-80: self.save_to_database(...) and the success response; the
\* attribute lookup raises AttributeError when the class has no such method
SaveAndReturn(commit_ok) ==
    /\ pc = "save"
    /\ IF HasMethod("save_to_database")
       THEN /\ db' = SaveToDatabase(db, statistics, plot_url, csv_url,
                                    "success", None, commit_ok)
            /\ response' = Some(SuccessResponse(statistics, data_points,
                                                plot_url, csv_url))
            /\ pc' = "done"
            /\ UNCHANGED raised
       ELSE Except("AttributeError", commit_ok)
    /\ UNCHANGED <<request, propagator, simulator, tle_ctor_args, current_dt,
                   end_dt, step_count, results, statistics, data_points,
                   plot_url, csv_url, files>>

Next ==
    \/ \E r \in Requests : Submit(r)
    \/ \E eph_ok \in BOOLEAN, commit_ok \in BOOLEAN :
           Construct(eph_ok, commit_ok)
    \/ \E commit_ok \in BOOLEAN : StartLoop(commit_ok)
    \/ /\ pc = "loop"
       /\ \E sat_pos \in PositionOutcomes(propagator[1], current_dt),
             sun_dir \in SunOutcomes, commit_ok \in BOOLEAN :
              EngineStep(sat_pos, sun_dir, commit_ok)
    \/ CalculateStatistics
    \/ \E io_ok \in BOOLEAN, commit_ok \in BOOLEAN :
           GeneratePlot(io_ok, commit_ok)
    \/ \E io_ok \in BOOLEAN, commit_ok \in BOOLEAN :
           ExportCsv(io_ok, commit_ok)
    \/ PrepareDataPoints
    \/ \E commit_ok \in BOOLEAN : SaveAndReturn(commit_ok)

Spec == Init /\ [][Next]_vars

-----------------------------------------------------------------------------
(* The engine loop on its own: the time arithmetic of lines 181-187 and    *)
(* 216-217 over windows of full size.  The rows a tick appends do not      *)
(* enter the loop condition and are left out here.                         *)

\* validated windows: the longest and the shortest duration, the smallest
\* and the largest step
WindowRequests ==
    {[DefaultRequest EXCEPT !.duration = d, !.time_step_seconds = st] :
        d \in {[s |-> MaxDurationSec, ns |-> 0],
               [s |-> MinDurationSec, ns |-> 0]},
        st \in {MinTimeStep, MaxTimeStep}}

\* the engine after lines 180-186 for a validated window
InitWindow ==
    /\ \E r \in WindowRequests :
          /\ request = Some(r)
          /\ current_dt = FromIsoformat(r.start_time)
          /\ end_dt = DtAdd(FromIsoformat(r.start_time),
                            TimedeltaHours(r.duration))
    /\ pc = "loop"
    /\ step_count = 0
    /\ results = <<>>
    /\ propagator = None
    /\ simulator = None
    /\ tle_ctor_args = None
    /\ statistics = None
    /\ data_points = None
    /\ plot_url = None
    /\ csv_url = None
    /\ files = {}
    /\ db = {}
    /\ response = None
    /\ raised = "none"

\* one pass through the loop: the test of line 187, then lines 216-217
LoopTick ==
    /\ pc = "loop"
    /\ DtLe(current_dt, end_dt)
    /\ Advance(request[1].time_step_seconds)
    /\ UNCHANGED <<request, pc, propagator, simulator, tle_ctor_args, end_dt,
                   results, statistics, data_points, plot_url, csv_url,
                   files, db, response, raised>>

\* the test of line 187 fails: the loop is left (lines 219-221)
LoopEnd ==
    /\ pc = "loop"
    /\ ~DtLe(current_dt, end_dt)
    /\ pc' = "returned"
    /\ UNCHANGED <<request, propagator, simulator, tle_ctor_args, current_dt,
                   end_dt, step_count, results, statistics, data_points,
                   plot_url, csv_url, files, db, response, raised>>

NextWindow == LoopTick \/ LoopEnd

SpecWindow == InitWindow /\ [][NextWindow]_vars

\* the loop is sequential code: as long as the calls of an iteration
\* return, the interpreter goes on to the next test of line 187
SpecWindowFair == SpecWindow /\ WF_vars(LoopTick) /\ WF_vars(LoopEnd)

-----------------------------------------------------------------------------
(* prepare_data_points on its own, over frames of up to MaxFrameLen rows *)

\* a row of a sunlit step and a row of an eclipsed step
SunlitRow ==
    EngineRow(SolarPanelSimulator(None, DefaultRequest.panel_area_m2,
                                  DefaultRequest.panel_efficiency),
              [s |-> 0, us |-> 0], <<7000, 0, 0>>, <<1, 0, 0>>)

EclipsedRow ==
    EngineRow(SolarPanelSimulator(None, DefaultRequest.panel_area_m2,
                                  DefaultRequest.panel_efficiency),
              [s |-> 0, us |-> 0], <<0 - 5600, 4200, 0>>, <<1, 0, 0>>)

\* a frame of n rows, one second apart, alternately sunlit and eclipsed
Frame(n) ==
    [i \in 1..n |->
        [(IF i % 2 = 1 THEN SunlitRow ELSE EclipsedRow)
            EXCEPT !.time = [s |-> (i - 1) * MinTimeStep, us |-> 0]]]

InitPrepare ==
    /\ \E n \in 1..MaxFrameLen : results = Frame(n)
    /\ pc = "prepare"
    /\ request = None
    /\ current_dt = [s |-> 0, us |-> 0]
    /\ end_dt = [s |-> 0, us |-> 0]
    /\ step_count = 0
    /\ propagator = None
    /\ simulator = None
    /\ tle_ctor_args = None
    /\ statistics = None
    /\ data_points = None
    /\ plot_url = None
    /\ csv_url = None
    /\ files = {}
    /\ db = {}
    /\ response = None
    /\ raised = "none"

NextPrepare == PrepareDataPoints

SpecPrepare == InitPrepare /\ [][NextPrepare]_vars

-----------------------------------------------------------------------------
(* Properties *)

Returned == pc = "done" /\ response # None

\* the exceptions of provider construction, of a simulation step and of
\* plot/CSV generation
StageExceptions == {"orbit_provider_construction", "ephemeris_load",
                    "fromisoformat", "get_position", "get_sun_direction",
                    "savefig", "to_csv"}

\* the exceptions raised by the orbit provider or the sun-direction provider
ProviderExceptions == {"orbit_provider_construction", "ephemeris_load",
                       "get_position", "get_sun_direction"}

\* C1: a run on a validated request in which provider construction, every
\* step, the statistics and plot/CSV generation raise nothing returns a
\* response with status 'success' carrying the statistics and the data
\* points.
C1_CleanRunSucceeds ==
    (Returned /\ raised \notin StageExceptions) =>
        /\ response[1].status = "success"
        /\ response[1].statistics # None
        /\ response[1].data_points # None

\* C2: whenever a run is reported as failed, neither the plot file nor the
\* CSV export of that simulation id has been written.
C2_NothingKeptOnError ==
    (Returned /\ response[1].status = "error") =>
        (PlotFile \notin files /\ CsvFile \notin files)

\* C3: an exception of the orbit provider (construction or get_position) or
\* of the sun-direction provider aborts the run: the response has status
\* 'error' and neither statistics nor data points, however many steps had
\* completed.
C3_ProviderExceptionAbortsRun ==
    (Returned /\ raised \in ProviderExceptions) =>
        /\ response[1].status = "error"
        /\ response[1].statistics = None
        /\ response[1].data_points = None

\* C3 witness: the sun-direction provider raised after completed steps
C3_Witness ==
    /\ pc = "done"
    /\ raised = "get_sun_direction"
    /\ Len(results) >= 2
    /\ response[1].status = "error"

\* floor(duration_hours*3600/time_step_seconds): the sub-second part of the
\* duration is below one second and the step is a whole number of seconds
ExactWindowFloor(d, ts) == d.s \div ts

\* C4 as stated: the engine produces floor(duration_hours*3600/step) + 1
\* points and total_data_points reports that number.
C4_PointCountOfExactDuration ==
    statistics # None =>
        /\ Len(results) =
              ExactWindowFloor(request[1].duration,
                               request[1].time_step_seconds) + 1
        /\ statistics[1].total_data_points = Len(results)

\* C4 amended: with D the duration rounded to the nearest microsecond, the
\* engine produces floor(D/step) + 1 points, the first at start_time, one at
\* the end of the window when the end is a whole number of steps away, and
\* total_data_points reports that number.
C4_PointCountOfRoundedDuration ==
    statistics # None =>
        LET D  == TimedeltaHours(request[1].duration)
            ts == request[1].time_step_seconds
            n  == (D.s \div ts) + 1
        IN /\ Len(results) = n
           /\ statistics[1].total_data_points = n
           /\ results[1].time = FromIsoformat(request[1].start_time)
           /\ (D.us = 0 /\ D.s % ts = 0) => results[n].time = end_dt

\* C4 witness: a duration that rounds up to ten minutes, sampled every five
C4_Witness ==
    /\ statistics # None
    /\ request[1].duration.ns > 0
    /\ TimedeltaHours(request[1].duration).s > request[1].duration.s
    /\ Len(results) = 3
    /\ results[3].time = end_dt

\* the point count the duration and step bounds are said to imply
MaxPointsClaimed == MaxDurationSec \div MinTimeStep

\* C5: the number of points a validated run accumulates never exceeds
\* 86,400.
C5_AtMost86400Points == step_count <= MaxPointsClaimed

\* C6: a 'tle' request with a missing or empty TLE line is rejected before
\* anything runs, and TLEOrbitPropagator is only ever constructed with both
\* lines present and non-empty.
C6_TleLinesRequired ==
    /\ (request # None
        /\ request[1].propagation_method = "tle"
        /\ (Falsy(request[1].tle_line1) \/ Falsy(request[1].tle_line2)))
       => (pc = "rejected" /\ tle_ctor_args = None /\ results = <<>>
           /\ response = None /\ db = {})
    /\ tle_ctor_args # None =>
          (~Falsy(tle_ctor_args[1][1]) /\ ~Falsy(tle_ctor_args[1][2]))

\* C6 witness: a 'tle' request with line 1 present and line 2 missing was
\* rejected
C6_Witness ==
    /\ request # None
    /\ request[1].propagation_method = "tle"
    /\ ~Falsy(request[1].tle_line1)
    /\ Falsy(request[1].tle_line2)
    /\ pc = "rejected"

\* C7: no data point is produced from a zero-length position vector (the
\* run is aborted instead).
C7_NoPointFromZeroPosition ==
    \A i \in 1..Len(results) :
        ~(results[i].position_x = 0 /\ results[i].position_y = 0
          /\ results[i].position_z = 0)

\* a sun angle of 90 degrees or more: cos_angle <= 0
AtLeast90(angle) == ~IsNaN(angle) /\ angle >= 90

\* C8: every data point has power_W >= 0, power_W = 0 when in_shadow, and
\* power_W = 0 when cos_angle <= 0 (a sun angle of 90 degrees or more).
C8_PowerZeroInShadowOrBehind ==
    \A i \in 1..Len(results) :
        /\ results[i].power_W >= 0
        /\ results[i].in_shadow => results[i].power_W = 0
        /\ AtLeast90(results[i].sun_angle_deg) => results[i].power_W = 0

\* C8 witness: a run with an eclipsed point, a sunlit point whose panel
\* faces away from the sun, and a point that generates power
C8_Witness ==
    /\ \E i \in 1..Len(results) : results[i].in_shadow
    /\ \E i \in 1..Len(results) :
          /\ ~results[i].in_shadow
          /\ AtLeast90(results[i].sun_angle_deg)
          /\ results[i].sun_angle_deg > 90
          /\ results[i].power_W = 0
    /\ \E i \in 1..Len(results) : results[i].power_W > 0

\* C9: the statistics of a run are computed over a non-empty sequence and
\* 0 <= eclipse_percentage <= 100.
C9_EclipsePercentageInRange ==
    statistics # None =>
        /\ Len(results) > 0
        /\ statistics[1].eclipse_percentage >= 0
        /\ statistics[1].eclipse_percentage <= 100 * 100

\* C9 witness: statistics of a run that was in eclipse at every point
C9_Witness ==
    /\ statistics # None
    /\ Len(results) >= 3
    /\ \A i \in 1..Len(results) : results[i].in_shadow
    /\ statistics[1].eclipse_percentage = 100 * 100

\* C10: prepare_data_points returns every point, in order, when there are
\* at most 500; otherwise exactly the points at the 0-based indices
\* 0, N, 2N, ... below the length, N = floor(len/500), in their order.
C10_DownsampleEveryNth ==
    (pc = "save" /\ data_points # None) =>
        LET n   == Len(results)
            out == data_points[1]
            N   == IF n > MAX_POINTS THEN n \div MAX_POINTS ELSE 1
            idx == {i \in 0..(n - 1) : i % N = 0}
        IN /\ Len(out) = Cardinality(idx)
           /\ \A k \in 1..Len(out) :
                 /\ (k - 1) * N \in idx
                 /\ out[k] = DataPoint(results[(k - 1) * N + 1])

\* C10 witness: a frame of more than 1000 rows was thinned to every 2nd row
C10_Witness ==
    /\ pc = "save"
    /\ data_points # None
    /\ Len(results) > 2 * MAX_POINTS
    /\ Len(data_points[1]) < Len(results)
    /\ data_points[1][2] = DataPoint(results[3])

\* a run that was entered has come to its end, one way or the other
RunEnded == pc \in {"done", "crashed"}

C12_AppendOnlyAscending ==
    [][/\ results' # results =>
             /\ Len(results') = Len(results) + 1
             /\ SubSeq(results', 1, Len(results)) = results
             /\ results'[Len(results')].time = current_dt
             /\ current_dt' =
                   DtAdd(current_dt,
                         TimedeltaSeconds(request[1].time_step_seconds))
             /\ step_count' = step_count + 1
       /\ current_dt' # current_dt => results' # results
       /\ Len(results') = step_count'
       /\ \A i \in 1..Len(results') :
             /\ i = 1 => results'[i].time =
                            FromIsoformat(request'[1].start_time)
             /\ i > 1 => results'[i].time =
                            DtAdd(results'[i - 1].time,
                                  TimedeltaSeconds(
                                      request'[1].time_step_seconds))
             /\ i > 1 => ~DtLe(results'[i].time, results'[i - 1].time)
             /\ DtLe(results'[i].time, end_dt')]_vars

\* C12 witness: four points, the fourth three steps after the start
C12_Witness ==
    /\ Len(results) = 4
    /\ results[1].time = FromIsoformat(request[1].start_time)
    /\ results[4].time.s = 3 * request[1].time_step_seconds
    /\ DtLe(results[4].time, end_dt)

\* C13: for every valid window the loop terminates: after finitely many
\* iterations current_dt lies after start_time + duration_hours and the
\* loop is left.
C13_LoopTerminates == <>(pc = "returned" /\ ~DtLe(current_dt, end_dt))

\* C13 witness: the loop over 24 hours in steps of one second was left
C13_Witness ==
    /\ pc = "returned"
    /\ request[1].duration.s = MaxDurationSec
    /\ request[1].time_step_seconds = MinTimeStep
    /\ step_count = MaxDurationSec + 1
    /\ ~DtLe(current_dt, end_dt)

\* C14: the list prepare_data_points(df, max_points=500) hands back never
\* holds more than max_points points.
C14_AtMostMaxPoints ==
    data_points # None => Len(data_points[1]) <= MAX_POINTS

\* C15: the reported eclipse_time_seconds never exceeds the length of the
\* simulated window, duration_hours * 3600 seconds (eclipse_time_seconds is
\* a whole number of seconds, so it is compared with the whole seconds of
\* the window).
C15_EclipseTimeWithinWindow ==
    statistics # None =>
        statistics[1].eclipse_time_seconds <= request[1].duration.s

====
